---- MODULE Spec2Model ----
(***************************************************************************)
(* Model of snowflake/ml/_internal/env_utils.py: requirement validation,   *)
(* duplicate detection across conda channels, and the lookup of pinned     *)
(* versions in the Snowflake conda channel through a process-wide cache.   *)
(*                                                                         *)
(* A Python string is a sequence of lexemes.  A lexeme is one character    *)
(* ("a", "A", "-", ":") or a group of characters that the PEP 508 grammar  *)
(* reads as a unit ("[x]" an extras group, "==1" a version clause, "@u" a  *)
(* URL clause, ";m" an environment marker, "pip" the word pip).            *)
(***************************************************************************)
EXTENDS Integers, Sequences, FiniteSets, TLC

VARIABLES
    req_list,         \* the target list of append_requirement_list
    conda_chan_deps,  \* the target dict of append_conda_dependency, in insertion order
    arg,              \* the argument of the validation function under check
    cache,            \* _SNOWFLAKE_CONDA_PACKAGE_CACHE
    catalog,          \* rows of information_schema.packages (the remote catalog)
    query,            \* the catalog query that call sent, or NoQuery
    call,             \* the call the last step made (NoCall if it made none)
    outcome,          \* how that call ended: status and returned value
    calls,            \* number of calls made so far
    heap,             \* the Requirement objects alive, an object's id is its index
    encoder,          \* the fields of the LabelEncoder under check
    trace             \* what the collaborators of the call saw, in order

vars == <<req_list, conda_chan_deps, arg, cache, catalog, query, call, outcome, calls,
          heap, encoder, trace>>

(***************************************************************************)
(* Bounds of the model.                                                    *)
(***************************************************************************)
MaxCalls == 3      \* calls of the append operations in one behaviour
MaxDepLen == 4     \* lexemes in a dependency string
MaxListLen == 3    \* strings in a list given to a list validator
MaxVersion == 2    \* catalog versions are 1..MaxVersion
MaxReqs == 2       \* requirements in one catalog lookup
MaxRecords == 3    \* package records in a solved state
MaxCols == 2       \* names in input_cols and in output_cols

(***************************************************************************)
(* Python values.                                                          *)
(***************************************************************************)
None == "None"
NoCall == [op |-> "none"]
NoOutcome == [status |-> "none", value |-> None]
NoQuery == [sent |-> FALSE, names |-> {}]

Returned(v) == [status |-> "ok", value |-> v]
Raised(e) == [status |-> e, value |-> None]

ValueError == "ValueError"

\* class DuplicateDependencyError(Exception)
DuplicateDependencyError == "DuplicateDependencyError"

\* class DuplicateDependencyInMultipleChannelsError(Exception)
DuplicateDependencyInMultipleChannelsError == "DuplicateDependencyInMultipleChannelsError"

(***************************************************************************)
(* packaging.requirements.Requirement: the fields of a parsed requirement. *)
(* A specifier is one version clause, or the empty specifier set.          *)
(***************************************************************************)
EmptySpecifier == [op |-> "", ver |-> 0]

Requirement(n, s, e, u, m) ==
    [name |-> n, specifier |-> s, extras |-> e, url |-> u, marker |-> m]

PlainRequirement(n, s) == Requirement(n, s, {}, "", "")

\* the universe the append operations draw their requirements from
AppendNames == {<<"a">>, <<"b">>, <<"c">>}
AppendSpecifiers == {EmptySpecifier, [op |-> "==", ver |-> 1]}
AppendRequirements == {PlainRequirement(n, s) : n \in AppendNames, s \in AppendSpecifiers}
AppendChannels == {<<"defaults">>, <<"pip">>}

(***************************************************************************)
(* _check_if_requirement_same                                              *)
(***************************************************************************)
\* variant: two requirements are the same only when every field agrees
CheckRequirementEqual(req_a, req_b) == req_a = req_b

_check_if_requirement_same(req_a, req_b) == req_a.name = req_b.name

(***************************************************************************)
(* append_requirement_list: the result is the exception raised ("" when    *)
(* none) and the list as the call leaves it.                               *)
(***************************************************************************)
RECURSIVE ScanRequirementList(_, _, _)
ScanRequirementList(list, i, p_req) ==
    IF i > Len(list) THEN FALSE
    ELSE IF _check_if_requirement_same(p_req, list[i]) THEN TRUE
    ELSE ScanRequirementList(list, i + 1, p_req)

append_requirement_list(list, p_req) ==
    IF ScanRequirementList(list, 1, p_req)
    THEN [raised |-> DuplicateDependencyError, req_list |-> list]
    ELSE [raised |-> "", req_list |-> Append(list, p_req)]

(***************************************************************************)
(* The DefaultDict[str, List[Requirement]] is a sequence of entries        *)
(* [channel, reqs] in insertion order, one entry per key.                  *)
(***************************************************************************)
Keys(d) == {d[i].channel : i \in 1..Len(d)}

KeyIndex(d, c) == CHOOSE i \in 1..Len(d) : d[i].channel = c

\* conda_chan_deps[p_channel].append(p_req): a missing key is created with []
DefaultDictAppend(d, c, r) ==
    IF c \in Keys(d)
    THEN [d EXCEPT ![KeyIndex(d, c)].reqs = Append(@, r)]
    ELSE Append(d, [channel |-> c, reqs |-> <<r>>])

\* the loops of append_conda_dependency: "" when they end without a raise,
\* otherwise the exception of the first match in iteration order
RECURSIVE ScanChannelDeps(_, _, _, _, _)
ScanChannelDeps(d, i, j, p_channel, p_req) ==
    IF i > Len(d) THEN ""
    ELSE IF j > Len(d[i].reqs) THEN ScanChannelDeps(d, i + 1, 1, p_channel, p_req)
    ELSE IF _check_if_requirement_same(p_req, d[i].reqs[j])
         THEN IF d[i].channel # p_channel
              THEN DuplicateDependencyInMultipleChannelsError
              ELSE DuplicateDependencyError
         ELSE ScanChannelDeps(d, i, j + 1, p_channel, p_req)

\* variant: only the list of the appended channel is searched
AppendCondaSameChannelOnly(d, p_channel, p_req) ==
    IF \E i \in 1..Len(d) : /\ d[i].channel = p_channel
                            /\ \E j \in 1..Len(d[i].reqs) :
                                   _check_if_requirement_same(p_req, d[i].reqs[j])
    THEN [raised |-> DuplicateDependencyError, deps |-> d]
    ELSE [raised |-> "", deps |-> DefaultDictAppend(d, p_channel, p_req)]

\* variant: the two exceptions are exchanged
AppendCondaErrorsSwapped(d, p_channel, p_req) ==
    LET e == ScanChannelDeps(d, 1, 1, p_channel, p_req)
    IN  IF e = DuplicateDependencyError
        THEN [raised |-> DuplicateDependencyInMultipleChannelsError, deps |-> d]
        ELSE IF e = DuplicateDependencyInMultipleChannelsError
        THEN [raised |-> DuplicateDependencyError, deps |-> d]
        ELSE [raised |-> "", deps |-> DefaultDictAppend(d, p_channel, p_req)]

\* variant: conda_chan_deps[p_channel] is read before the search, which
\* creates the key of a defaultdict
AppendCondaTouchesKeyFirst(d, p_channel, p_req) ==
    LET e == ScanChannelDeps(d, 1, 1, p_channel, p_req)
        touched == IF p_channel \in Keys(d) THEN d
                   ELSE Append(d, [channel |-> p_channel, reqs |-> <<>>])
    IN  IF e # ""
        THEN [raised |-> e, deps |-> touched]
        ELSE [raised |-> "", deps |-> DefaultDictAppend(d, p_channel, p_req)]

append_conda_dependency(d, p_channel, p_req) ==
    LET e == ScanChannelDeps(d, 1, 1, p_channel, p_req)
    IN  IF e # ""
        THEN [raised |-> e, deps |-> d]
        ELSE [raised |-> "", deps |-> DefaultDictAppend(d, p_channel, p_req)]

(***************************************************************************)
(* The append operations as steps of a program that starts with an empty   *)
(* list and an empty dict.                                                 *)
(***************************************************************************)
InitAppend ==
    /\ req_list = <<>>
    /\ conda_chan_deps = <<>>
    /\ arg = <<>>
    /\ cache = <<>>
    /\ catalog = {}
    /\ query = NoQuery
    /\ call = NoCall
    /\ outcome = NoOutcome
    /\ calls = 0
    /\ heap = <<>>
    /\ encoder = None
    /\ trace = <<>>

AppendRequirementList(p_req) ==
    LET r == append_requirement_list(req_list, p_req)
    IN  /\ calls < MaxCalls
        /\ calls' = calls + 1
        /\ call' = [op |-> "append_requirement_list", req |-> p_req]
        /\ req_list' = r.req_list
        /\ outcome' = IF r.raised = "" THEN Returned(None) ELSE Raised(r.raised)
        /\ UNCHANGED <<conda_chan_deps, arg, cache, catalog, query, heap, encoder, trace>>

AppendCondaDependency(p_channel, p_req) ==
    LET r == append_conda_dependency(conda_chan_deps, p_channel, p_req)
    IN  /\ calls < MaxCalls
        /\ calls' = calls + 1
        /\ call' = [op |-> "append_conda_dependency", channel |-> p_channel, req |-> p_req]
        /\ conda_chan_deps' = r.deps
        /\ outcome' = IF r.raised = "" THEN Returned(None) ELSE Raised(r.raised)
        /\ UNCHANGED <<req_list, arg, cache, catalog, query, heap, encoder, trace>>

NextAppend ==
    \/ \E p_req \in AppendRequirements : AppendRequirementList(p_req)
    \/ \E p_channel \in AppendChannels, p_req \in AppendRequirements :
           AppendCondaDependency(p_channel, p_req)

SpecAppend == InitAppend /\ [][NextAppend]_vars

(***************************************************************************)
(* Strings.  Letters are the lexemes a package name is made of besides the *)
(* separators; "pip" is a word of lower-case letters.                      *)
(***************************************************************************)
Letters == {"a", "b", "A", "B", "pip"}
Separators == {"-", "_", "."}
ExtrasLexemes == {"[x]"}
SpecifierLexemes == {"==1", ">=2"}
UrlLexemes == {"@u"}
MarkerLexemes == {";m"}

\* str.lower() of one lexeme
Lower(c) == CASE c = "A" -> "a" [] c = "B" -> "b" [] OTHER -> c

\* the characters of a sequence of lexemes: "::" is two colons
RECURSIVE Str(_)
Str(lex) ==
    IF lex = <<>> THEN <<>>
    ELSE (IF Head(lex) = "::" THEN <<":", ":">> ELSE <<Head(lex)>>) \o Str(Tail(lex))

\* all sequences over S of length at most n
SeqsUpTo(S, n) == UNION {[1..k -> S] : k \in 0..n}

Max(S) == CHOOSE x \in S : \A y \in S : y <= x
Min(S) == CHOOSE x \in S : \A y \in S : x <= y

(***************************************************************************)
(* packaging.utils.canonicalize_name: runs of "-", "_", "." become one     *)
(* "-", and the name is lower-cased.                                       *)
(***************************************************************************)
RECURSIVE canonicalize_name(_)
canonicalize_name(name) ==
    IF name = <<>> THEN <<>>
    ELSE IF Head(name) \in Separators
         THEN IF Len(name) > 1 /\ name[2] \in Separators
              THEN canonicalize_name(Tail(name))
              ELSE <<"-">> \o canonicalize_name(Tail(name))
         ELSE <<Lower(Head(name))>> \o canonicalize_name(Tail(name))

(***************************************************************************)
(* packaging.requirements.Requirement(req_str): the PEP 508 grammar        *)
(*     name [extras] [version clause | URL] [marker]                       *)
(* where a name starts and ends with a letter and has letters and          *)
(* separators between.  InvalidRequirement is valid = FALSE.               *)
(***************************************************************************)
RECURSIVE NameLength(_)
NameLength(s) ==
    IF s # <<>> /\ Head(s) \in Letters \cup Separators
    THEN 1 + NameLength(Tail(s))
    ELSE 0

SpecifierOf(c) ==
    CASE c = "==1" -> [op |-> "==", ver |-> 1]
      [] c = ">=2" -> [op |-> ">=", ver |-> 2]
      [] OTHER -> EmptySpecifier

ParseRequirement(s) ==
    LET n == NameLength(s)
        name == SubSeq(s, 1, n)
        r1 == SubSeq(s, n + 1, Len(s))
        hasExtras == r1 # <<>> /\ Head(r1) \in ExtrasLexemes
        r2 == IF hasExtras THEN Tail(r1) ELSE r1
        hasSpec == r2 # <<>> /\ Head(r2) \in SpecifierLexemes
        hasUrl == r2 # <<>> /\ Head(r2) \in UrlLexemes
        r3 == IF hasSpec \/ hasUrl THEN Tail(r2) ELSE r2
        hasMarker == r3 # <<>> /\ Head(r3) \in MarkerLexemes
        r4 == IF hasMarker THEN Tail(r3) ELSE r3
        ok == /\ n >= 1
              /\ name[1] \in Letters
              /\ name[n] \in Letters
              /\ r4 = <<>>
    IN  [valid |-> ok,
         req |-> IF ok
                 THEN Requirement(name,
                                  IF hasSpec THEN SpecifierOf(Head(r2)) ELSE EmptySpecifier,
                                  IF hasExtras THEN {"x"} ELSE {},
                                  IF hasUrl THEN "u" ELSE "",
                                  IF hasMarker THEN "m" ELSE "")
                 ELSE None]

(***************************************************************************)
(* _validate_pip_requirement_string                                        *)
(***************************************************************************)
\* variant: the marker is not looked at
ValidatePipIgnoringMarker(req_str) ==
    LET p == ParseRequirement(req_str)
    IN  IF ~p.valid THEN Raised(ValueError)
        ELSE Returned([p.req EXCEPT !.name = canonicalize_name(@)])

\* variant: the name is kept as written
ValidatePipKeepingName(req_str) ==
    LET p == ParseRequirement(req_str)
    IN  IF ~p.valid THEN Raised(ValueError)
        ELSE IF p.req.marker # "" THEN Raised(ValueError)
        ELSE Returned(p.req)

_validate_pip_requirement_string(req_str) ==
    LET p == ParseRequirement(req_str)
    IN  IF ~p.valid THEN Raised(ValueError)
        ELSE LET r == [p.req EXCEPT !.name = canonicalize_name(@)]
             IN  IF r.marker # "" THEN Raised(ValueError)
                 ELSE Returned(r)

(***************************************************************************)
(* str.rpartition("::"): <<head, separator, tail>> around the last "::",   *)
(* or <<"", "", s>> when s has none.                                      *)
(***************************************************************************)
Occurrences(s) == {i \in 1..(Len(s) - 1) : s[i] = ":" /\ s[i + 1] = ":"}

\* variant: str.partition, the split at the first "::" (with rpartition's
\* result when there is none)
PartitionAtFirst(s) ==
    IF Occurrences(s) = {} THEN <<<<>>, <<>>, s>>
    ELSE LET i == Min(Occurrences(s))
         IN  <<SubSeq(s, 1, i - 1), <<":", ":">>, SubSeq(s, i + 2, Len(s))>>

rpartition(s) ==
    IF Occurrences(s) = {} THEN <<<<>>, <<>>, s>>
    ELSE LET i == Max(Occurrences(s))
         IN  <<SubSeq(s, 1, i - 1), <<":", ":">>, SubSeq(s, i + 2, Len(s))>>

(***************************************************************************)
(* _validate_conda_dependency_string                                       *)
(***************************************************************************)
Defaults == <<"defaults">>
Pip == <<"pip">>

\* variant: extras and URL are refused under every channel
ValidateCondaRefusingPipExtras(dep_str) ==
    LET parts == rpartition(dep_str)
        channel_str == IF parts[1] = <<>> THEN Defaults ELSE parts[1]
        v == _validate_pip_requirement_string(parts[3])
    IN  IF v.status # "ok" THEN v
        ELSE IF v.value.extras # {} THEN Raised(ValueError)
        ELSE IF v.value.url # "" THEN Raised(ValueError)
        ELSE Returned(<<channel_str, v.value>>)

_validate_conda_dependency_string(dep_str) ==
    LET parts == rpartition(dep_str)
        channel_str == IF parts[1] = <<>> THEN Defaults ELSE parts[1]
        v == _validate_pip_requirement_string(parts[3])
    IN  IF v.status # "ok" THEN v
        ELSE IF channel_str # Pip /\ v.value.extras # {} THEN Raised(ValueError)
        ELSE IF channel_str # Pip /\ v.value.url # "" THEN Raised(ValueError)
        ELSE Returned(<<channel_str, v.value>>)

(***************************************************************************)
(* The validation of one string: the argument is any string of at most     *)
(* MaxDepLen lexemes, and one of the two validators is applied to it.      *)
(***************************************************************************)
DepAlphabet == {"a", "pip", ":", "::", "[x]", "==1", "@u", ";m"}
DepStrings == {Str(lex) : lex \in SeqsUpTo(DepAlphabet, MaxDepLen)}

InitParse ==
    /\ arg \in DepStrings
    /\ req_list = <<>>
    /\ conda_chan_deps = <<>>
    /\ cache = <<>>
    /\ catalog = {}
    /\ query = NoQuery
    /\ call = NoCall
    /\ outcome = NoOutcome
    /\ calls = 0
    /\ heap = <<>>
    /\ encoder = None
    /\ trace = <<>>

ValidatePipRequirementString ==
    /\ call = NoCall
    /\ call' = [op |-> "_validate_pip_requirement_string"]
    /\ outcome' = _validate_pip_requirement_string(arg)
    /\ calls' = calls + 1
    /\ UNCHANGED <<req_list, conda_chan_deps, arg, cache, catalog, query, heap, encoder, trace>>

ValidateCondaDependencyString ==
    /\ call = NoCall
    /\ call' = [op |-> "_validate_conda_dependency_string"]
    /\ outcome' = _validate_conda_dependency_string(arg)
    /\ calls' = calls + 1
    /\ UNCHANGED <<req_list, conda_chan_deps, arg, cache, catalog, query, heap, encoder, trace>>

NextParse ==
    \/ ValidatePipRequirementString
    \/ ValidateCondaDependencyString

SpecParse == InitParse /\ [][NextParse]_vars

(***************************************************************************)
(* validate_pip_requirement_string_list: the loop over req_str_list, with  *)
(* the list seen so far; the first exception ends it.                      *)
(***************************************************************************)
RECURSIVE ValidatePipLoop(_, _, _)

\* one turn of the loop, v being the validation of the string at i
ValidatePipLoopBody(req_str_list, i, seen, v) ==
    IF v.status # "ok" THEN v
    ELSE LET a == append_requirement_list(seen, v.value)
         IN  IF a.raised # "" THEN Raised(a.raised)
             ELSE ValidatePipLoop(req_str_list, i + 1, a.req_list)

ValidatePipLoop(req_str_list, i, seen) ==
    IF i > Len(req_str_list) THEN Returned(seen)
    ELSE ValidatePipLoopBody(req_str_list, i, seen,
                             _validate_pip_requirement_string(req_str_list[i]))

validate_pip_requirement_string_list(req_str_list) ==
    ValidatePipLoop(req_str_list, 1, <<>>)

(***************************************************************************)
(* validate_conda_dependency_string_list: list(map(...)) validates every   *)
(* string first, the first invalid one raising; then the loop appends the  *)
(* validated pairs to a new defaultdict.                                   *)
(***************************************************************************)
RECURSIVE MapValidateConda(_, _, _)
MapValidateConda(dep_str_list, i, validated) ==
    IF i > Len(dep_str_list) THEN Returned(validated)
    ELSE LET v == _validate_conda_dependency_string(dep_str_list[i])
         IN  IF v.status # "ok" THEN v
             ELSE MapValidateConda(dep_str_list, i + 1, Append(validated, v.value))

RECURSIVE AppendCondaLoop(_, _, _)
AppendCondaLoop(validated, i, d) ==
    IF i > Len(validated) THEN Returned(d)
    ELSE LET a == append_conda_dependency(d, validated[i][1], validated[i][2])
         IN  IF a.raised # "" THEN Raised(a.raised)
             ELSE AppendCondaLoop(validated, i + 1, a.deps)

\* variant: each string is validated and appended in turn, as the pip list
\* validator does
RECURSIVE ValidateCondaInterleaved(_, _, _)
ValidateCondaInterleavedBody(dep_str_list, i, d, v) ==
    IF v.status # "ok" THEN v
    ELSE LET a == append_conda_dependency(d, v.value[1], v.value[2])
         IN  IF a.raised # "" THEN Raised(a.raised)
             ELSE ValidateCondaInterleaved(dep_str_list, i + 1, a.deps)

ValidateCondaInterleaved(dep_str_list, i, d) ==
    IF i > Len(dep_str_list) THEN Returned(d)
    ELSE ValidateCondaInterleavedBody(dep_str_list, i, d,
                                      _validate_conda_dependency_string(dep_str_list[i]))

ValidateCondaOneByOne(dep_str_list) == ValidateCondaInterleaved(dep_str_list, 1, <<>>)

\* m is the outcome of list(map(...))
AppendValidatedCondaList(m) ==
    IF m.status # "ok" THEN m
    ELSE AppendCondaLoop(m.value, 1, <<>>)

validate_conda_dependency_string_list(dep_str_list) ==
    AppendValidatedCondaList(MapValidateConda(dep_str_list, 1, <<>>))

(***************************************************************************)
(* The validation of a list of strings: the argument is any list of at     *)
(* most MaxListLen strings of the pool.  The pool has spellings of one     *)
(* name that differ in case and separators, with and without a version     *)
(* clause, other names, and strings no validator accepts.                  *)
(***************************************************************************)
StringPool ==
    { <<"a", "-", "b">>,
      <<"A", "_", "B">>,
      <<"a", ".", "_", "b", "==1">>,
      <<"a", "b">>,
      <<"a", "b", ">=2">>,
      <<"b">>,
      <<"b", "[x]">>,
      <<"a", "-">>,
      <<"b", ";m">>,
      Str(<<"pip", "::", "b", "[x]">>),
      Str(<<"pip", "::", "a", "-", "b">>),
      Str(<<"a", "::", "A", ".", "b">>) }

InitList ==
    /\ arg \in SeqsUpTo(StringPool, MaxListLen)
    /\ req_list = <<>>
    /\ conda_chan_deps = <<>>
    /\ cache = <<>>
    /\ catalog = {}
    /\ query = NoQuery
    /\ call = NoCall
    /\ outcome = NoOutcome
    /\ calls = 0
    /\ heap = <<>>
    /\ encoder = None
    /\ trace = <<>>

ValidatePipRequirementStringList ==
    /\ call = NoCall
    /\ call' = [op |-> "validate_pip_requirement_string_list"]
    /\ outcome' = validate_pip_requirement_string_list(arg)
    /\ calls' = calls + 1
    /\ UNCHANGED <<req_list, conda_chan_deps, arg, cache, catalog, query, heap, encoder, trace>>

ValidateCondaDependencyStringList ==
    /\ call = NoCall
    /\ call' = [op |-> "validate_conda_dependency_string_list"]
    /\ outcome' = validate_conda_dependency_string_list(arg)
    /\ calls' = calls + 1
    /\ UNCHANGED <<req_list, conda_chan_deps, arg, cache, catalog, query, heap, encoder, trace>>

NextList ==
    \/ ValidatePipRequirementStringList
    \/ ValidateCondaDependencyStringList

SpecList == InitList /\ [][NextList]_vars

(***************************************************************************)
(* The Snowflake conda channel.  The catalog is the set of rows            *)
(* <<package name, version>> of information_schema.packages; versions are  *)
(* the numbers 1..MaxVersion and a package's versions are published in     *)
(* increasing order.                                                       *)
(***************************************************************************)
Versions == 1..MaxVersion
LookupNames == {<<"a">>, <<"b">>}
\* the requirements of the lookups: a, a==1, b, b>=2
LookupRequirements ==
    { PlainRequirement(<<"a">>, EmptySpecifier),
      PlainRequirement(<<"a">>, [op |-> "==", ver |-> 1]),
      PlainRequirement(<<"b">>, EmptySpecifier),
      PlainRequirement(<<"b">>, [op |-> ">=", ver |-> 2]) }

CatalogVersions(rows, n) == {v \in Versions : <<n, v>> \in rows}

\* the elements of a set of numbers in increasing order
RECURSIVE Ascending(_)
Ascending(S) == IF S = {} THEN <<>> ELSE <<Min(S)>> \o Ascending(S \ {Min(S)})

\* the names of a sequence of requirements, in order
NameSeq(reqs) == [i \in 1..Len(reqs) |-> reqs[i].name]

\* the rows the query returns for the requested names: sorted(req.name ...)
\* has no effect on the rows matched; rows come name by name, versions ascending
RECURSIVE QueryRows(_, _)
QueryRows(rows, names) ==
    IF names = {} THEN <<>>
    ELSE LET n == CHOOSE x \in names : TRUE
         IN  [i \in 1..Cardinality(CatalogVersions(rows, n)) |->
                  <<n, Ascending(CatalogVersions(rows, n))[i]>>]
             \o QueryRows(rows, names \ {n})

(***************************************************************************)
(* _SNOWFLAKE_CONDA_PACKAGE_CACHE: for every name, whether it is a key and *)
(* the list of versions stored under it.                                   *)
(***************************************************************************)
EmptyCache == [n \in LookupNames |-> [cached |-> FALSE, versions |-> <<>>]]

InCache(c, n) == c[n].cached

\* _SNOWFLAKE_CONDA_PACKAGE_CACHE.get(name, [])
CacheGet(c, n) == IF c[n].cached THEN c[n].versions ELSE <<>>

\* the loop over the result rows
RECURSIVE LoadRows(_, _)
LoadRows(c, rows) ==
    IF rows = <<>> THEN c
    ELSE LET req_name == Head(rows)[1]
             req_ver == Head(rows)[2]
             cached_req_ver_list == Append(CacheGet(c, req_name), req_ver)
         IN  LoadRows([c EXCEPT ![req_name] =
                           [cached |-> TRUE, versions |-> cached_req_ver_list]],
                      Tail(rows))

\* specifier.contains(version)
Contains(specifier, v) ==
    CASE specifier.op = "" -> TRUE
      [] specifier.op = "==" -> v = specifier.ver
      [] specifier.op = ">=" -> v >= specifier.ver

\* req.specifier.filter(versions)
Filter(specifier, versions) == SelectSeq(versions, LAMBDA v : Contains(specifier, v))

Elements(list) == {list[i] : i \in 1..Len(list)}

(***************************************************************************)
(* Strings of the result: f"{req.name}=={latest_version}", and sorted().   *)
(***************************************************************************)
DigitChars == <<"1", "2", "3", "4", "5", "6", "7", "8", "9">>

VersionStr(v) == <<DigitChars[v]>>

PinStr(name, v) == name \o <<"=", "=">> \o VersionStr(v)

\* ord() of the characters a pin string is made of
CharCode(c) ==
    CASE c = "-" -> 45
      [] c = "=" -> 61
      [] c = "a" -> 97
      [] c = "b" -> 98
      [] c = "c" -> 99
      [] OTHER -> 48 + (CHOOSE d \in 1..9 : DigitChars[d] = c)

\* s < t for Python strings
RECURSIVE StrLess(_, _)
StrLess(s, t) ==
    IF t = <<>> THEN FALSE
    ELSE IF s = <<>> THEN TRUE
    ELSE IF Head(s) = Head(t) THEN StrLess(Tail(s), Tail(t))
    ELSE CharCode(Head(s)) < CharCode(Head(t))

\* list.insert keeping a sorted list sorted, after the equal elements
RECURSIVE Insert(_, _)
Insert(sorted_list, x) ==
    IF sorted_list = <<>> THEN <<x>>
    ELSE IF StrLess(x, Head(sorted_list)) THEN <<x>> \o sorted_list
    ELSE <<Head(sorted_list)>> \o Insert(Tail(sorted_list), x)

\* sorted(list)
RECURSIVE Sorted(_)
Sorted(list) ==
    IF list = <<>> THEN <<>>
    ELSE Insert(Sorted(SubSeq(list, 1, Len(list) - 1)), list[Len(list)])

(***************************************************************************)
(* validate_requirements_in_snowflake_conda_channel.  An Optional[List]    *)
(* result is [is_none, list].  data_error says whether the result          *)
(* validation of the query, if one is sent, raises DataError.              *)
(***************************************************************************)
ReturnNone == Returned([is_none |-> TRUE, list |-> <<>>])
ReturnList(l) == Returned([is_none |-> FALSE, list |-> l])

\* variant: every requirement is requested as soon as one is not cached
ReqsToRequestAll(c, reqs) ==
    IF \E i \in 1..Len(reqs) : ~InCache(c, reqs[i].name) THEN reqs ELSE <<>>

\* variant: every requirement is requested, cached or not
ReqsToRequestIgnoringCache(c, reqs) == reqs

\* reqs_to_request, lines 262-265
ReqsToRequest(c, reqs) == SelectSeq(reqs, LAMBDA req : ~InCache(c, req.name))

\* variant: min(available_versions) is pinned
RECURSIVE PinLoopOldest(_, _, _, _)
PinLoopOldest(c, reqs, i, ret_list) ==
    IF i > Len(reqs) THEN ReturnList(Sorted(ret_list))
    ELSE LET available_versions == Filter(reqs[i].specifier, CacheGet(c, reqs[i].name))
         IN  IF available_versions = <<>> THEN ReturnNone
             ELSE LET latest_version == Min(Elements(available_versions))
                  IN  PinLoopOldest(c, reqs, i + 1,
                                    Append(ret_list, PinStr(reqs[i].name, latest_version)))

\* the loop of lines 297-303: None at the first requirement without an
\* available version, otherwise the sorted pins
RECURSIVE PinLoop(_, _, _, _)
PinLoop(c, reqs, i, ret_list) ==
    IF i > Len(reqs) THEN ReturnList(Sorted(ret_list))
    ELSE LET available_versions == Filter(reqs[i].specifier, CacheGet(c, reqs[i].name))
         IN  IF available_versions = <<>> THEN ReturnNone
             ELSE LET latest_version == Max(Elements(available_versions))
                  IN  PinLoop(c, reqs, i + 1,
                              Append(ret_list, PinStr(reqs[i].name, latest_version)))

\* variant: the rows are stored in the cache before the result is validated
LookupStoringBeforeValidation(c, rows, reqs, data_error) ==
    LET reqs_to_request == ReqsToRequest(c, reqs)
        names == Elements(NameSeq(reqs_to_request))
        loaded == LoadRows(c, QueryRows(rows, names))
    IN  IF reqs_to_request # <<>>
        THEN [cache |-> loaded, query |-> [sent |-> TRUE, names |-> names],
              outcome |-> IF data_error THEN ReturnNone
                          ELSE PinLoop(loaded, reqs, 1, <<>>)]
        ELSE [cache |-> c, query |-> NoQuery, outcome |-> PinLoop(c, reqs, 1, <<>>)]

validate_requirements_in_snowflake_conda_channel(c, rows, reqs, data_error) ==
    LET reqs_to_request == ReqsToRequest(c, reqs)
        names == Elements(NameSeq(reqs_to_request))
    IN  IF reqs_to_request # <<>>
        THEN IF data_error
             THEN [cache |-> c, query |-> [sent |-> TRUE, names |-> names],
                   outcome |-> ReturnNone]
             ELSE LET loaded == LoadRows(c, QueryRows(rows, names))
                  IN  [cache |-> loaded, query |-> [sent |-> TRUE, names |-> names],
                       outcome |-> PinLoop(loaded, reqs, 1, <<>>)]
        ELSE [cache |-> c, query |-> NoQuery, outcome |-> PinLoop(c, reqs, 1, <<>>)]

(***************************************************************************)
(* Lookups in a process whose cache starts empty, while the catalog grows. *)
(***************************************************************************)
InitCache ==
    /\ cache = EmptyCache
    /\ catalog = {}
    /\ query = NoQuery
    /\ req_list = <<>>
    /\ conda_chan_deps = <<>>
    /\ arg = <<>>
    /\ call = NoCall
    /\ outcome = NoOutcome
    /\ calls = 0
    /\ heap = <<>>
    /\ encoder = None
    /\ trace = <<>>

ValidateRequirementsInSnowflakeCondaChannel(reqs, data_error) ==
    \E r \in {validate_requirements_in_snowflake_conda_channel(cache, catalog, reqs, data_error)} :
        /\ data_error => r.query.sent
        /\ call' = [op |-> "validate_requirements_in_snowflake_conda_channel",
                    reqs |-> reqs, data_error |-> data_error]
        /\ cache' = r.cache
        /\ query' = r.query
        /\ outcome' = r.outcome
        /\ UNCHANGED <<catalog, req_list, conda_chan_deps, arg, calls, heap, encoder, trace>>

\* the channel publishes the next version of package n
CatalogPublish(n) ==
    LET next == Cardinality(CatalogVersions(catalog, n)) + 1
    IN  /\ next <= MaxVersion
        /\ catalog' = catalog \cup {<<n, next>>}
        /\ call' = NoCall
        /\ outcome' = NoOutcome
        /\ query' = NoQuery
        /\ UNCHANGED <<cache, req_list, conda_chan_deps, arg, calls, heap, encoder, trace>>

NextCache ==
    \/ \E reqs \in SeqsUpTo(LookupRequirements, MaxReqs), data_error \in BOOLEAN :
           ValidateRequirementsInSnowflakeCondaChannel(reqs, data_error)
    \/ \E n \in LookupNames : CatalogPublish(n)

SpecCache == InitCache /\ [][NextCache]_vars

(***************************************************************************)
(* Requirement objects.  heap[id] holds the fields of the object id;       *)
(* copy.deepcopy makes a new object with equal fields and nothing shared.  *)
(* The result of an operation is the heap it leaves, the id it returns and *)
(* the warnings it emitted.                                                *)
(***************************************************************************)
ObjectNames == {<<"a">>, <<"b">>}
ObjectSpecifiers == {EmptySpecifier, [op |-> "==", ver |-> 1], [op |-> ">=", ver |-> 2]}

\* the requirements PEP 508 allows: a URL excludes a version clause
ObjectRequirements ==
    {Requirement(n, sp, e, u, m) :
         n \in ObjectNames, sp \in ObjectSpecifiers, e \in {{}, {"x"}},
         u \in {"", "u"}, m \in {"", "m"}}
    \ {r \in [name : ObjectNames, specifier : ObjectSpecifiers, extras : {{}, {"x"}},
              url : {"u"}, marker : {"", "m"}] : r.specifier # EmptySpecifier}

\* copy.deepcopy(req): the heap with the copy, whose id is the next free one
NewId(h) == Len(h) + 1
DeepCopy(h, req) == Append(h, h[req])

\* importlib_metadata.distribution(name): PackageNotFoundError is found = FALSE
LocalDistributions ==
    {[found |-> FALSE, version |-> 0]} \cup {[found |-> TRUE, version |-> v] : v \in Versions}

UserWarning == "UserWarning"

(***************************************************************************)
(* get_local_installed_version_of_pip_package                              *)
(***************************************************************************)
\* variant: the specifier of pip_req itself is overwritten
PinInPlace(h, pip_req, local_dist) ==
    IF ~local_dist.found
    THEN [heap |-> h, result |-> pip_req, warnings |-> <<>>]
    ELSE IF Contains(h[pip_req].specifier, local_dist.version)
    THEN [heap |-> [h EXCEPT ![pip_req].specifier = [op |-> "==", ver |-> local_dist.version]],
          result |-> pip_req, warnings |-> <<>>]
    ELSE [heap |-> h, result |-> pip_req, warnings |-> <<UserWarning>>]

get_local_installed_version_of_pip_package(h, pip_req, local_dist) ==
    IF ~local_dist.found
    THEN [heap |-> h, result |-> pip_req, warnings |-> <<>>]
    ELSE IF Contains(h[pip_req].specifier, local_dist.version)
    THEN [heap |-> [DeepCopy(h, pip_req) EXCEPT
                        ![NewId(h)].specifier = [op |-> "==", ver |-> local_dist.version]],
          result |-> NewId(h), warnings |-> <<>>]
    ELSE [heap |-> h, result |-> pip_req, warnings |-> <<UserWarning>>]

(***************************************************************************)
(* relax_requirement_version                                               *)
(***************************************************************************)
\* variant: the specifier of req itself is emptied
RelaxInPlace(h, req) ==
    [heap |-> [h EXCEPT ![req].specifier = EmptySpecifier], result |-> req]

relax_requirement_version(h, req) ==
    [heap |-> [DeepCopy(h, req) EXCEPT ![NewId(h)].specifier = EmptySpecifier],
     result |-> NewId(h)]

(***************************************************************************)
(* Calls on the requirement objects of a process that starts with one.     *)
(***************************************************************************)
InitObjects ==
    /\ heap \in {<<r>> : r \in ObjectRequirements}
    /\ req_list = <<>>
    /\ conda_chan_deps = <<>>
    /\ arg = <<>>
    /\ cache = <<>>
    /\ catalog = {}
    /\ query = NoQuery
    /\ call = NoCall
    /\ outcome = NoOutcome
    /\ calls = 0
    /\ encoder = None
    /\ trace = <<>>

GetLocalInstalledVersionOfPipPackage(pip_req, local_dist) ==
    \E r \in {get_local_installed_version_of_pip_package(heap, pip_req, local_dist)} :
        /\ calls < MaxCalls
        /\ calls' = calls + 1
        /\ call' = [op |-> "get_local_installed_version_of_pip_package",
                    req |-> pip_req, local_dist |-> local_dist]
        /\ heap' = r.heap
        /\ outcome' = Returned(r.result)
        /\ trace' = r.warnings
        /\ UNCHANGED <<req_list, conda_chan_deps, arg, cache, catalog, query, encoder>>

RelaxRequirementVersion(req) ==
    \E r \in {relax_requirement_version(heap, req)} :
        /\ calls < MaxCalls
        /\ calls' = calls + 1
        /\ call' = [op |-> "relax_requirement_version", req |-> req,
                    local_dist |-> [found |-> FALSE, version |-> 0]]
        /\ heap' = r.heap
        /\ outcome' = Returned(r.result)
        /\ trace' = <<>>
        /\ UNCHANGED <<req_list, conda_chan_deps, arg, cache, catalog, query, encoder>>

NextObjects ==
    \/ \E pip_req \in 1..Len(heap), local_dist \in LocalDistributions :
           GetLocalInstalledVersionOfPipPackage(pip_req, local_dist)
    \/ \E req \in 1..Len(heap) : RelaxRequirementVersion(req)

SpecObjects == InitObjects /\ [][NextObjects]_vars

(***************************************************************************)
(* resolve_conda_environment.  The conda solver is an input of the call:   *)
(* solve_final_state() raises an exception (error names it) or returns the *)
(* records of the solved state, each with a name and a version.            *)
(***************************************************************************)
\* the exceptions of the except clause
CaughtSolverErrors ==
    {"ResolvePackageNotFound", "UnsatisfiableError", "PackagesNotFoundError",
     "LibMambaUnsatisfiableError"}

\* an exception the except clause does not name
OtherSolverError == "CondaError"

SolveNames == {<<"a">>, <<"b">>, <<"c">>}
PackageRecords == [name : SolveNames, version : Versions]
SolvePackages ==
    {PlainRequirement(<<"a">>, EmptySpecifier), PlainRequirement(<<"b">>, [op |-> "==", ver |-> 1])}

SolveOutcomes ==
    {[error |-> e, records |-> <<>>] : e \in CaughtSolverErrors \cup {OtherSolverError}}
    \cup {[error |-> "", records |-> recs] : recs \in SeqsUpTo(PackageRecords, MaxRecords)}

\* f"{pkg_record.name}=={pkg_record.version}" for pkg_record in solve_result
\* if pkg_record.name in package_names
RECURSIVE RecordPins(_, _)
RecordPins(records, package_names) ==
    IF records = <<>> THEN <<>>
    ELSE (IF Head(records).name \in package_names
          THEN <<PinStr(Head(records).name, Head(records).version)>>
          ELSE <<>>) \o RecordPins(Tail(records), package_names)

\* variant: every record of the solved state is returned
ResolveWithoutFilter(packages, solve) ==
    IF solve.error \in CaughtSolverErrors THEN ReturnNone
    ELSE IF solve.error # "" THEN Raised(solve.error)
    ELSE ReturnList(Sorted(RecordPins(solve.records, SolveNames)))

resolve_conda_environment(packages, solve) ==
    IF solve.error \in CaughtSolverErrors THEN ReturnNone
    ELSE IF solve.error # "" THEN Raised(solve.error)
    ELSE ReturnList(Sorted(RecordPins(solve.records, Elements(NameSeq(packages)))))

InitSolve ==
    /\ arg \in [packages : SeqsUpTo(SolvePackages, MaxReqs), solve : SolveOutcomes]
    /\ req_list = <<>>
    /\ conda_chan_deps = <<>>
    /\ cache = <<>>
    /\ catalog = {}
    /\ query = NoQuery
    /\ call = NoCall
    /\ outcome = NoOutcome
    /\ calls = 0
    /\ heap = <<>>
    /\ encoder = None
    /\ trace = <<>>

ResolveCondaEnvironment ==
    /\ call = NoCall
    /\ call' = [op |-> "resolve_conda_environment"]
    /\ outcome' = resolve_conda_environment(arg.packages, arg.solve)
    /\ calls' = calls + 1
    /\ UNCHANGED <<req_list, conda_chan_deps, arg, cache, catalog, query, heap, encoder, trace>>

NextSolve == ResolveCondaEnvironment

SpecSolve == InitSolve /\ [][NextSolve]_vars

(***************************************************************************)
(* LabelEncoder.  An Optional field is [is_none, value].  A dataset is its *)
(* type and the labels of its label column.  The OrdinalEncoder that does  *)
(* the work may raise in fit and in transform: whether it does is an input *)
(* of the call.  The field fit_returned is not a field of the object: it   *)
(* records whether some call of fit on it has returned.                    *)
(***************************************************************************)
NoneField == [is_none |-> TRUE, value |-> <<>>]
Some(v) == [is_none |-> FALSE, value |-> v]

RuntimeError == "RuntimeError"
TypeError == "TypeError"
\* an exception raised inside OrdinalEncoder
OrdinalEncoderError == "OrdinalEncoderError"

ColumnNames == {"x", "y"}
DatasetTypes == {"snowpark", "pandas", "other"}
Datasets == [type : DatasetTypes, labels : {<<"p">>, <<"p", "q">>}]

\* base.BaseTransformer.__init__: the estimator starts unfitted
BaseInitIsFitted == FALSE

\* base.BaseTransformer._reset
BaseReset(e) == [e EXCEPT !._is_fitted = FALSE]

\* LabelEncoder.__init__
NewLabelEncoder(input_cols, output_cols, drop_input_cols) ==
    [_ordinal_encoder |-> NoneField,
     classes_ |-> NoneField,
     _is_fitted |-> BaseInitIsFitted,
     drop_input_cols |-> drop_input_cols,
     input_cols |-> input_cols,
     output_cols |-> output_cols,
     fit_returned |-> FALSE]

\* LabelEncoder._reset
_reset(e) ==
    IF ~BaseReset(e)._ordinal_encoder.is_none
    THEN [BaseReset(e) EXCEPT !._ordinal_encoder = NoneField, !.classes_ = NoneField]
    ELSE BaseReset(e)

\* the encoder after lines 73-76: reset, with a new OrdinalEncoder
WithNewOrdinalEncoder(e) ==
    [_reset(e) EXCEPT !._ordinal_encoder =
         Some([input_cols |-> e.input_cols, output_cols |-> e.output_cols])]

\* LabelEncoder.fit
fit(e, dataset, ordinal_raises) ==
    IF Len(e.input_cols) # 1
    THEN [encoder |-> e, outcome |-> Raised(ValueError), trace |-> <<>>]
    ELSE IF Len(e.output_cols) # 1
    THEN [encoder |-> e, outcome |-> Raised(ValueError), trace |-> <<>>]
    ELSE IF ordinal_raises
    THEN [encoder |-> WithNewOrdinalEncoder(e), outcome |-> Raised(OrdinalEncoderError),
          trace |-> <<"OrdinalEncoder.fit">>]
    ELSE [encoder |-> [WithNewOrdinalEncoder(e) EXCEPT !.classes_ = Some(dataset.labels),
                                                       !._is_fitted = TRUE],
          outcome |-> Returned("self"), trace |-> <<"OrdinalEncoder.fit">>]

\* the DataFrame transform returns
OutputDataFrame(e, dataset) ==
    Returned([type |-> dataset.type, input_cols_dropped |-> e.drop_input_cols])

\* variant: only the presence of the ordinal encoder is tested
TransformTestingEncoderOnly(e, dataset, ordinal_raises) ==
    IF e._ordinal_encoder.is_none
    THEN [encoder |-> e, outcome |-> Raised(RuntimeError), trace |-> <<>>]
    ELSE IF dataset.type = "snowpark"
    THEN [encoder |-> e,
          outcome |-> IF ordinal_raises THEN Raised(OrdinalEncoderError)
                      ELSE OutputDataFrame(e, dataset),
          trace |-> <<"OrdinalEncoder.transform">>]
    ELSE IF dataset.type = "pandas"
    THEN [encoder |-> e,
          outcome |-> IF ordinal_raises THEN Raised(OrdinalEncoderError)
                      ELSE OutputDataFrame(e, dataset),
          trace |-> <<"_transform_sklearn">>]
    ELSE [encoder |-> e, outcome |-> Raised(TypeError), trace |-> <<>>]

\* variant: a dataset of any other type is handed to the sklearn transform
TransformAcceptingAnyType(e, dataset, ordinal_raises) ==
    IF ~e._is_fitted \/ e._ordinal_encoder.is_none \/ e.classes_.is_none
    THEN [encoder |-> e, outcome |-> Raised(RuntimeError), trace |-> <<>>]
    ELSE IF dataset.type = "snowpark"
    THEN [encoder |-> e,
          outcome |-> IF ordinal_raises THEN Raised(OrdinalEncoderError)
                      ELSE OutputDataFrame(e, dataset),
          trace |-> <<"OrdinalEncoder.transform">>]
    ELSE [encoder |-> e,
          outcome |-> IF ordinal_raises THEN Raised(OrdinalEncoderError)
                      ELSE OutputDataFrame(e, dataset),
          trace |-> <<"_transform_sklearn">>]

\* LabelEncoder.transform
transform(e, dataset, ordinal_raises) ==
    IF ~e._is_fitted \/ e._ordinal_encoder.is_none \/ e.classes_.is_none
    THEN [encoder |-> e, outcome |-> Raised(RuntimeError), trace |-> <<>>]
    ELSE IF dataset.type = "snowpark"
    THEN [encoder |-> e,
          outcome |-> IF ordinal_raises THEN Raised(OrdinalEncoderError)
                      ELSE OutputDataFrame(e, dataset),
          trace |-> <<"OrdinalEncoder.transform">>]
    ELSE IF dataset.type = "pandas"
    THEN [encoder |-> e,
          outcome |-> IF ordinal_raises THEN Raised(OrdinalEncoderError)
                      ELSE OutputDataFrame(e, dataset),
          trace |-> <<"_transform_sklearn">>]
    ELSE [encoder |-> e, outcome |-> Raised(TypeError), trace |-> <<>>]

(***************************************************************************)
(* One LabelEncoder, constructed with any column lists of at most MaxCols  *)
(* names, on which fit and transform are called in any order.              *)
(***************************************************************************)
InitEncoder ==
    /\ encoder \in {NewLabelEncoder(ic, oc, d) :
                        ic \in SeqsUpTo(ColumnNames, MaxCols),
                        oc \in SeqsUpTo(ColumnNames, MaxCols),
                        d \in BOOLEAN}
    /\ req_list = <<>>
    /\ conda_chan_deps = <<>>
    /\ arg = <<>>
    /\ cache = <<>>
    /\ catalog = {}
    /\ query = NoQuery
    /\ call = NoCall
    /\ outcome = NoOutcome
    /\ calls = 0
    /\ heap = <<>>
    /\ trace = <<>>

Fit(dataset, ordinal_raises) ==
    \E r \in {fit(encoder, dataset, ordinal_raises)} :
        /\ ordinal_raises => r.trace # <<>>
        /\ call' = [op |-> "fit", dataset |-> dataset, ordinal_raises |-> ordinal_raises]
        /\ encoder' = [r.encoder EXCEPT !.fit_returned = @ \/ r.outcome.status = "ok"]
        /\ outcome' = r.outcome
        /\ trace' = r.trace
        /\ UNCHANGED <<req_list, conda_chan_deps, arg, cache, catalog, query, calls, heap>>

Transform(dataset, ordinal_raises) ==
    \E r \in {transform(encoder, dataset, ordinal_raises)} :
        /\ ordinal_raises => r.trace # <<>>
        /\ call' = [op |-> "transform", dataset |-> dataset, ordinal_raises |-> ordinal_raises]
        /\ encoder' = r.encoder
        /\ outcome' = r.outcome
        /\ trace' = r.trace
        /\ UNCHANGED <<req_list, conda_chan_deps, arg, cache, catalog, query, calls, heap>>

NextEncoder ==
    \/ \E dataset \in Datasets, ordinal_raises \in BOOLEAN : Fit(dataset, ordinal_raises)
    \/ \E dataset \in Datasets, ordinal_raises \in BOOLEAN : Transform(dataset, ordinal_raises)

SpecEncoder == InitEncoder /\ [][NextEncoder]_vars

(***************************************************************************)
(* Deployment to Snowservice, as deploy_test.py exercises it.  _deploy and *)
(* SnowServiceDeployment are what the tests call; trace holds the calls    *)
(* the mocks of a test record, in order.  The options of a call are the    *)
(* set of keys its dict has; a message is the list of its words.           *)
(***************************************************************************)
MockSession == "m_session"
DeployModelIds == {"", "provided_model_id", "mock_model_id"}
DeployServiceFuncNames == {"mock_service_func", "provided_service_func_name"}
DeployModelDirs == {"mock_model_dir", "provided_model_dir"}

\* the option dicts of the tests: compute_pool with or without stage, image_repo
DeployOptionDicts ==
    {{"compute_pool"} \cup keys : keys \in SUBSET {"stage", "image_repo"}}

\* the options a ValueError names, in the order it names them
RequiredOptions == <<"stage", "image_repo">>

MissingOptions(options) == SelectSeq(RequiredOptions, LAMBDA key : key \notin options)

\* ", ".join(keys)
RECURSIVE Join(_)
Join(keys) ==
    IF Len(keys) <= 1 THEN keys
    ELSE <<Head(keys), ", ">> \o Join(Tail(keys))

RaisedWith(e, message) == [status |-> e, value |-> message]

Constructed(session, model_id, service_func_name, model_dir) ==
    [fn |-> "SnowServiceDeployment", session |-> session, model_id |-> model_id,
     service_func_name |-> service_func_name, model_dir |-> model_dir]

Called(fn) ==
    [fn |-> fn, session |-> "", model_id |-> "", service_func_name |-> "", model_dir |-> ""]

\* variant: the deployment is constructed before the arguments are validated
DeployConstructingFirst(session, model_id, service_func_name, model_dir, options) ==
    IF model_id = ""
    THEN [outcome |-> RaisedWith(ValueError, <<>>),
          trace |-> <<Constructed(session, model_id, service_func_name, model_dir)>>]
    ELSE IF MissingOptions(options) # <<>>
    THEN [outcome |-> RaisedWith(ValueError, Join(MissingOptions(options))),
          trace |-> <<Constructed(session, model_id, service_func_name, model_dir)>>]
    ELSE [outcome |-> Returned(None),
          trace |-> <<Constructed(session, model_id, service_func_name, model_dir),
                      Called("deploy")>>]

\* variant: the deployment is constructed and never deployed
DeployWithoutDeploying(session, model_id, service_func_name, model_dir, options) ==
    IF model_id = ""
    THEN [outcome |-> RaisedWith(ValueError, <<>>), trace |-> <<>>]
    ELSE IF MissingOptions(options) # <<>>
    THEN [outcome |-> RaisedWith(ValueError, Join(MissingOptions(options))), trace |-> <<>>]
    ELSE [outcome |-> Returned(None),
          trace |-> <<Constructed(session, model_id, service_func_name, model_dir)>>]

\* deploy._deploy
_deploy(session, model_id, service_func_name, model_dir, options) ==
    IF model_id = ""
    THEN [outcome |-> RaisedWith(ValueError, <<>>), trace |-> <<>>]
    ELSE IF MissingOptions(options) # <<>>
    THEN [outcome |-> RaisedWith(ValueError, Join(MissingOptions(options))), trace |-> <<>>]
    ELSE [outcome |-> Returned(None),
          trace |-> <<Constructed(session, model_id, service_func_name, model_dir),
                      Called("deploy")>>]

\* variant: deploy() builds the image and starts no workflow
DeployImageOnly == <<Called("_build_and_upload_image")>>

\* SnowServiceDeployment.deploy: the calls it makes on itself
deploy == <<Called("_build_and_upload_image"), Called("_deploy_workflow")>>

\* SnowServiceDeployment._build_and_upload_image: the calls it makes on the
\* image builder
_build_and_upload_image == <<Called("image_builder.build_and_upload_image")>>

InitDeploy ==
    /\ trace = <<>>
    /\ req_list = <<>>
    /\ conda_chan_deps = <<>>
    /\ arg = <<>>
    /\ cache = <<>>
    /\ catalog = {}
    /\ query = NoQuery
    /\ call = NoCall
    /\ outcome = NoOutcome
    /\ calls = 0
    /\ heap = <<>>
    /\ encoder = None

Deploy(model_id, service_func_name, model_dir, options) ==
    \E r \in {_deploy(MockSession, model_id, service_func_name, model_dir, options)} :
        /\ calls < MaxCalls
        /\ calls' = calls + 1
        /\ call' = [op |-> "_deploy", session |-> MockSession, model_id |-> model_id,
                    service_func_name |-> service_func_name, model_dir |-> model_dir,
                    options |-> options]
        /\ outcome' = r.outcome
        /\ trace' = r.trace
        /\ UNCHANGED <<req_list, conda_chan_deps, arg, cache, catalog, query, heap, encoder>>

SnowServiceDeploymentDeploy ==
    /\ calls < MaxCalls
    /\ calls' = calls + 1
    /\ call' = [op |-> "SnowServiceDeployment.deploy", session |-> MockSession,
                model_id |-> "provided_model_id",
                service_func_name |-> "provided_service_func_name",
                model_dir |-> "provided_model_dir",
                options |-> {"stage", "compute_pool", "image_repo"}]
    /\ outcome' = Returned(None)
    /\ trace' = deploy
    /\ UNCHANGED <<req_list, conda_chan_deps, arg, cache, catalog, query, heap, encoder>>

BuildAndUploadImage ==
    /\ calls < MaxCalls
    /\ calls' = calls + 1
    /\ call' = [op |-> "SnowServiceDeployment._build_and_upload_image",
                session |-> MockSession, model_id |-> "provided_model_id",
                service_func_name |-> "provided_service_func_name",
                model_dir |-> "provided_model_dir",
                options |-> {"stage", "compute_pool", "image_repo"}]
    /\ outcome' = Returned(None)
    /\ trace' = _build_and_upload_image
    /\ UNCHANGED <<req_list, conda_chan_deps, arg, cache, catalog, query, heap, encoder>>

NextDeploy ==
    \/ \E model_id \in DeployModelIds, service_func_name \in DeployServiceFuncNames,
          model_dir \in DeployModelDirs, options \in DeployOptionDicts :
           Deploy(model_id, service_func_name, model_dir, options)
    \/ SnowServiceDeploymentDeploy
    \/ BuildAndUploadImage

SpecDeploy == InitDeploy /\ [][NextDeploy]_vars

(***************************************************************************)
(* Claims about the append operations.                                     *)
(***************************************************************************)
NamesOf(list) == {list[i].name : i \in 1..Len(list)}

\* the channels of dict d whose list holds a requirement named n
ChannelsHolding(d, n) == {d[i].channel : i \in {k \in 1..Len(d) : n \in NamesOf(d[k].reqs)}}

IsDuplicateError(o) ==
    o.status \in {DuplicateDependencyError, DuplicateDependencyInMultipleChannelsError}

C1_NoDuplicateNames ==
    \A i, j \in 1..Len(req_list) : i # j => req_list[i].name # req_list[j].name

C1_Step ==
    call'.op = "append_requirement_list" =>
        IF call'.req.name \in NamesOf(req_list)
        THEN outcome' = Raised(DuplicateDependencyError)
        ELSE outcome' = Returned(None) /\ req_list' = Append(req_list, call'.req)

\* C1: starting from the empty list, no two requirements of req_list ever have
\* the same name; append_requirement_list raises DuplicateDependencyError when
\* the name of its requirement is already in the list, and otherwise appends
\* the requirement as the last element.
C1_AppendRequirementList == []C1_NoDuplicateNames /\ [][C1_Step]_vars

C1_Witness ==
    /\ call.op = "append_requirement_list"
    /\ outcome.status = DuplicateDependencyError
    /\ Len(req_list) = 2
    /\ \E i \in 1..Len(req_list) :
           req_list[i].name = call.req.name /\ req_list[i] # call.req

\* C2: starting from the empty dict, every package name occurs at most once in
\* conda_chan_deps: at most once in a channel's list, never in two channels.
C2_NameOnceInDict ==
    \A i, j \in 1..Len(conda_chan_deps) :
        \A k \in 1..Len(conda_chan_deps[i].reqs), l \in 1..Len(conda_chan_deps[j].reqs) :
            (i # j \/ k # l) =>
                conda_chan_deps[i].reqs[k].name # conda_chan_deps[j].reqs[l].name

C2_Witness ==
    /\ Len(conda_chan_deps) = 2
    /\ \A i \in 1..Len(conda_chan_deps) : Len(conda_chan_deps[i].reqs) >= 1
    /\ calls = MaxCalls
    /\ IsDuplicateError(outcome)

C3_Step ==
    call'.op = "append_conda_dependency" =>
        LET held == ChannelsHolding(conda_chan_deps, call'.req.name)
        IN  /\ outcome'.status = DuplicateDependencyInMultipleChannelsError
                <=> held \ {call'.channel} # {}
            /\ outcome'.status = DuplicateDependencyError <=> call'.channel \in held
            /\ outcome'.status = "ok" <=> held = {}

\* C3: append_conda_dependency of (c, r) raises
\* DuplicateDependencyInMultipleChannelsError exactly when r's name is stored
\* under a channel other than c, DuplicateDependencyError exactly when it is
\* stored under c, and succeeds exactly when it is stored under no channel.
C3_CondaErrorCases == [][C3_Step]_vars

C3_Witness ==
    /\ call.op = "append_conda_dependency"
    /\ outcome.status = DuplicateDependencyError
    /\ Len(conda_chan_deps) = 2
    /\ conda_chan_deps[2].channel = call.channel

C4_Step ==
    /\ IsDuplicateError(outcome') =>
           req_list' = req_list /\ conda_chan_deps' = conda_chan_deps
    /\ (call'.op = "append_conda_dependency" /\ outcome'.status = "ok") =>
           LET c == call'.channel
               others(d) == SelectSeq(d, LAMBDA e : e.channel # c)
               own(d) == SelectSeq(d, LAMBDA e : e.channel = c)
           IN  /\ others(conda_chan_deps') = others(conda_chan_deps)
               /\ Len(own(conda_chan_deps')) = 1
               /\ own(conda_chan_deps')[1].reqs =
                      IF own(conda_chan_deps) = <<>> THEN <<call'.req>>
                      ELSE Append(own(conda_chan_deps)[1].reqs, call'.req)
               /\ req_list' = req_list

\* C4: a call of append_requirement_list or append_conda_dependency that raises
\* a duplicate error leaves the list and the dict as they were (no requirement
\* added, no channel key created); a successful append_conda_dependency
\* changes only the list of the appended channel.
C4_FrameOfAppend == [][C4_Step]_vars

C4_Witness ==
    /\ call.op = "append_conda_dependency"
    /\ outcome.status = DuplicateDependencyInMultipleChannelsError
    /\ call.channel \notin Keys(conda_chan_deps)
    /\ req_list # <<>>

(***************************************************************************)
(* Claims about the validation of one string.                              *)
(***************************************************************************)
\* the text before and after the last "::" of s (s has one)
BeforeLast(s) == SubSeq(s, 1, Max(Occurrences(s)) - 1)
AfterLast(s) == SubSeq(s, Max(Occurrences(s)) + 2, Len(s))

\* the channel and the requirement text the claims say a dependency string has
ChannelOf(s) ==
    IF Occurrences(s) = {} \/ BeforeLast(s) = <<>> THEN Defaults ELSE BeforeLast(s)
RequirementTextOf(s) == IF Occurrences(s) = {} THEN s ELSE AfterLast(s)

\* C5: _validate_conda_dependency_string splits at the last "::": the channel
\* is the text before it, or "defaults" when there is no "::" or nothing
\* before it, and the requirement is the validated text after it; a text after
\* the last "::" that is no valid requirement makes the call raise ValueError,
\* and one that is a plain requirement (no extras, no URL) is returned.
C5_SplitAtLastDoubleColon ==
    call.op = "_validate_conda_dependency_string" =>
        LET v == _validate_pip_requirement_string(RequirementTextOf(arg))
        IN  /\ v.status = ValueError => outcome = Raised(ValueError)
            /\ outcome.status = "ok" => outcome.value = <<ChannelOf(arg), v.value>>
            /\ (v.status = "ok" /\ v.value.extras = {} /\ v.value.url = "")
                   => outcome.status = "ok"

C5_Witness ==
    /\ call.op = "_validate_conda_dependency_string"
    /\ \E i, j \in Occurrences(arg) : j >= i + 2
    /\ outcome.status = "ok"
    /\ outcome.value[1] \notin {Defaults, Pip}

\* C6: validation raises ValueError when the requirement text is not valid
\* PEP 508, when it has a marker (under every channel, and for plain pip
\* requirement strings), and when it has extras or a URL under a channel other
\* than "pip"; under channel "pip" extras and URL are accepted.
C6_ValidationErrors ==
    /\ call.op = "_validate_pip_requirement_string" =>
           LET p == ParseRequirement(arg)
           IN  (~p.valid \/ p.req.marker # "") => outcome = Raised(ValueError)
    /\ call.op = "_validate_conda_dependency_string" =>
           LET p == ParseRequirement(RequirementTextOf(arg))
               channel == ChannelOf(arg)
           IN  /\ (~p.valid \/ p.req.marker # "") => outcome = Raised(ValueError)
               /\ (p.valid /\ channel # Pip /\ (p.req.extras # {} \/ p.req.url # ""))
                      => outcome = Raised(ValueError)
               /\ (p.valid /\ channel = Pip /\ p.req.marker = "")
                      => /\ outcome.status = "ok"
                         /\ outcome.value[2].extras = p.req.extras
                         /\ outcome.value[2].url = p.req.url

C6_Witness ==
    /\ call.op = "_validate_conda_dependency_string"
    /\ outcome.status = "ok"
    /\ outcome.value[1] = Pip
    /\ outcome.value[2].extras # {}

(***************************************************************************)
(* Claims about the validation of a list of strings.                       *)
(***************************************************************************)
\* the name of a valid requirement string, as written and in canonical form
WrittenName(req_str) == ParseRequirement(req_str).req.name
CanonicalName(req_str) == canonicalize_name(WrittenName(req_str))

EachValidPip(list) ==
    \A i \in 1..Len(list) :
        ParseRequirement(list[i]).valid /\ ParseRequirement(list[i]).req.marker = ""

\* C7: given strings that are each valid, validate_pip_requirement_string_list
\* returns one requirement per string, in input order, with the canonical
\* name (the other fields as parsed) when the canonical names are distinct,
\* and raises DuplicateDependencyError when two strings have the same
\* canonical name, whatever their spelling and version clauses.
C7_PipListResult ==
    (call.op = "validate_pip_requirement_string_list" /\ EachValidPip(arg)) =>
        IF \E i, j \in 1..Len(arg) : i # j /\ CanonicalName(arg[i]) = CanonicalName(arg[j])
        THEN outcome = Raised(DuplicateDependencyError)
        ELSE /\ outcome.status = "ok"
             /\ Len(outcome.value) = Len(arg)
             /\ \A i \in 1..Len(arg) :
                    outcome.value[i] = [ParseRequirement(arg[i]).req
                                            EXCEPT !.name = CanonicalName(arg[i])]

C7_Witness ==
    /\ call.op = "validate_pip_requirement_string_list"
    /\ EachValidPip(arg)
    /\ Len(arg) = 2
    /\ WrittenName(arg[1]) # WrittenName(arg[2])
    /\ ParseRequirement(arg[1]).req.specifier # ParseRequirement(arg[2]).req.specifier
    /\ outcome = Raised(DuplicateDependencyError)

(***************************************************************************)
(* Claims about the lookups.                                               *)
(***************************************************************************)
\* a step that is a call of validate_requirements_in_snowflake_conda_channel
LookupStep == call'.op = "validate_requirements_in_snowflake_conda_channel"

RequestedNames(reqs) == {reqs[i].name : i \in 1..Len(reqs)}

Satisfying(req, versions) == {v \in versions : Contains(req.specifier, v)}

Count(list, x) == Cardinality({i \in 1..Len(list) : list[i] = x})

SameEntries(l1, l2) ==
    /\ Len(l1) = Len(l2)
    /\ \A i \in 1..Len(l1) : Count(l1, l1[i]) = Count(l2, l1[i])

InStringOrder(list) == \A i \in 1..(Len(list) - 1) : ~StrLess(list[i + 1], list[i])

\* outcome o is the answer for reqs when Known(n) are the versions of package n:
\* None if some requirement has no satisfying version, otherwise the pins of
\* the greatest satisfying versions, one per requirement, sorted as strings
PinnedResult(o, reqs, Known(_)) ==
    IF \E i \in 1..Len(reqs) : Satisfying(reqs[i], Known(reqs[i].name)) = {}
    THEN o = ReturnNone
    ELSE /\ o.status = "ok"
         /\ ~o.value.is_none
         /\ InStringOrder(o.value.list)
         /\ SameEntries(o.value.list,
                [i \in 1..Len(reqs) |->
                    PinStr(reqs[i].name, Max(Satisfying(reqs[i], Known(reqs[i].name))))])

\* C8 as stated: the result is None if some requirement has no catalog
\* version satisfying its specifier, and otherwise the sorted pins of the
\* greatest satisfying catalog versions.
C8_AsStated ==
    [][LookupStep =>
          PinnedResult(outcome', call'.reqs, LAMBDA n : CatalogVersions(catalog, n))]_vars

C8_Step ==
    LookupStep =>
        LET Known(n) == IF InCache(cache, n) THEN Elements(cache[n].versions)
                        ELSE CatalogVersions(catalog, n)
        IN  IF call'.data_error THEN outcome' = ReturnNone
            ELSE PinnedResult(outcome', call'.reqs, Known)

\* C8 (amended): the result is None if the catalog query fails with a
\* DataError or some requirement has no satisfying version among the versions
\* known for its package (the cached versions if the package is cached when
\* the call starts, the catalog's versions otherwise), and otherwise the
\* sorted pins of the greatest satisfying known versions.
C8_PinnedFromKnownVersions == [][C8_Step]_vars

C8_Witness ==
    /\ call.op = "validate_requirements_in_snowflake_conda_channel"
    /\ Len(call.reqs) = 2
    /\ call.reqs[1].name = <<"b">>
    /\ call.reqs[2] = PlainRequirement(<<"a">>, [op |-> "==", ver |-> 1])
    /\ query = [sent |-> TRUE, names |-> {<<"b">>}]
    /\ outcome = ReturnList(<<PinStr(<<"a">>, 1), PinStr(<<"b">>, 2)>>)
    /\ Cardinality(CatalogVersions(catalog, <<"a">>)) >= 2

C9_Step ==
    LookupStep =>
        LET uncached == RequestedNames(call'.reqs) \ {n \in LookupNames : InCache(cache, n)}
        IN  /\ query'.sent <=> uncached # {}
            /\ query'.sent => query'.names = uncached
            /\ call'.reqs = <<>> => outcome' = ReturnList(<<>>)

\* C9: a lookup sends a catalog query exactly when some requested name is not
\* a key of the cache when the call starts, and the query names exactly the
\* requested names that are not cached; a call with an empty requirement list
\* sends none and returns the empty list.
C9_QueryOnlyForUncached == [][C9_Step]_vars

C9_Witness ==
    /\ call.op = "validate_requirements_in_snowflake_conda_channel"
    /\ RequestedNames(call.reqs) = {<<"a">>, <<"b">>}
    /\ query = [sent |-> TRUE, names |-> {<<"a">>}]
    /\ InCache(cache, <<"b">>)
    /\ ~call.data_error

C10_Step ==
    (LookupStep /\ call'.data_error) => (outcome' = ReturnNone /\ cache' = cache)

\* C10: a lookup whose catalog query fails result validation with a DataError
\* returns None and leaves the cache as it was before the call.
C10_DataErrorReturnsNone == [][C10_Step]_vars

C10_Witness ==
    /\ call.op = "validate_requirements_in_snowflake_conda_channel"
    /\ call.data_error
    /\ outcome = ReturnNone
    /\ \E n \in query.names : CatalogVersions(catalog, n) # {}
    /\ \E n \in LookupNames : InCache(cache, n)

(***************************************************************************)
(* Claims about the operations on requirement objects.                     *)
(***************************************************************************)
\* every object of heap h is in heap g, with the same fields
Untouched(h, g) == Len(g) >= Len(h) /\ \A id \in 1..Len(h) : g[id] = h[id]

C11_Step ==
    call'.op = "get_local_installed_version_of_pip_package" =>
        LET pip_req == call'.req
            local_dist == call'.local_dist
            result == outcome'.value
            satisfied == local_dist.found /\ Contains(heap[pip_req].specifier, local_dist.version)
        IN  /\ outcome'.status = "ok"
            /\ Untouched(heap, heap')
            /\ satisfied =>
                   /\ result \notin 1..Len(heap)
                   /\ result \in 1..Len(heap')
                   /\ heap'[result] = [heap[pip_req] EXCEPT
                          !.specifier = [op |-> "==", ver |-> local_dist.version]]
                   /\ trace' = <<>>
            /\ (local_dist.found /\ ~satisfied) =>
                   /\ result = pip_req
                   /\ trace' = <<UserWarning>>
            /\ ~local_dist.found =>
                   /\ result = pip_req
                   /\ trace' = <<>>

\* C11: get_local_installed_version_of_pip_package returns a new requirement
\* pinned to the local version when the package is installed and the version
\* satisfies the specifier, the given requirement with a UserWarning when the
\* installed version does not satisfy it, and the given requirement when the
\* package is not installed; the given requirement object keeps its fields.
C11_LocalInstalledVersion == [][C11_Step]_vars

C11_Witness ==
    /\ call.op = "get_local_installed_version_of_pip_package"
    /\ call.local_dist = [found |-> TRUE, version |-> 2]
    /\ heap[call.req].specifier = [op |-> ">=", ver |-> 2]
    /\ heap[call.req].extras # {}
    /\ outcome.value # call.req
    /\ heap[outcome.value].specifier = [op |-> "==", ver |-> 2]

C12_Step ==
    call'.op = "relax_requirement_version" =>
        LET req == call'.req
            result == outcome'.value
        IN  /\ outcome'.status = "ok"
            /\ Untouched(heap, heap')
            /\ result \notin 1..Len(heap)
            /\ result \in 1..Len(heap')
            /\ heap'[result] = [heap[req] EXCEPT !.specifier = EmptySpecifier]
            /\ heap[req].specifier = EmptySpecifier => heap'[result] = heap[req]

\* C12: relax_requirement_version returns a new requirement with the empty
\* specifier and the name, extras, URL and marker of the given one, leaves the
\* given object as it was, and relaxing a requirement whose specifier is
\* already empty (a relaxed one) returns an equal requirement.
C12_RelaxRequirementVersion == [][C12_Step]_vars

C12_Witness ==
    /\ call.op = "relax_requirement_version"
    /\ Len(heap) = 3
    /\ call.req = 2
    /\ outcome.value = 3
    /\ heap[1].specifier # EmptySpecifier
    /\ heap[1].marker # ""
    /\ heap[2] = [heap[1] EXCEPT !.specifier = EmptySpecifier]
    /\ heap[3] = heap[2]

(***************************************************************************)
(* Claims about resolve_conda_environment.                                 *)
(***************************************************************************)
\* the records of the solved state whose name was requested
RequestedRecords(packages, records) ==
    {i \in 1..Len(records) : records[i].name \in RequestedNames(packages)}

\* C13: resolve_conda_environment returns None when the solver raises one of
\* the not-found or unsatisfiable exceptions; when the solver returns a solved
\* state the result is, sorted as strings, one entry "name==version" for each
\* record whose name is a requested package name and no other entry.
C13_ResolveCondaEnvironment ==
    call.op = "resolve_conda_environment" =>
        /\ arg.solve.error \in CaughtSolverErrors => outcome = ReturnNone
        /\ arg.solve.error = "" =>
               /\ outcome.status = "ok"
               /\ ~outcome.value.is_none
               /\ InStringOrder(outcome.value.list)
               /\ Len(outcome.value.list) =
                      Cardinality(RequestedRecords(arg.packages, arg.solve.records))
               /\ \A rec \in PackageRecords :
                      Count(outcome.value.list, PinStr(rec.name, rec.version)) =
                          Cardinality({i \in RequestedRecords(arg.packages, arg.solve.records) :
                                           arg.solve.records[i] = rec})

C13_Witness ==
    /\ call.op = "resolve_conda_environment"
    /\ arg.solve.error = ""
    /\ Len(arg.solve.records) = 3
    /\ arg.solve.records[1].name = <<"b">>
    /\ arg.solve.records[2].name = <<"c">>
    /\ arg.solve.records[3].name = <<"a">>
    /\ Len(arg.packages) = 2
    /\ Len(outcome.value.list) = 2
    /\ outcome.value.list[1][1] = "a"

(***************************************************************************)
(* Claims about LabelEncoder.                                              *)
(***************************************************************************)
Fitted(e) == e._is_fitted /\ ~e._ordinal_encoder.is_none /\ ~e.classes_.is_none

FittedState(e) == <<e._is_fitted, e.classes_, e._ordinal_encoder>>

C14_Step ==
    call'.op = "transform" =>
        /\ ~encoder.fit_returned => outcome' = Raised(RuntimeError)
        /\ outcome'.status = "ok" => encoder.fit_returned

\* C14: while no call of fit on the encoder has returned, transform raises
\* RuntimeError for a dataset of any type; transform returns an output only
\* after a fit has returned.
C14_TransformNeedsFit == [][C14_Step]_vars

C14_Witness ==
    /\ call.op = "transform"
    /\ call.dataset.type = "other"
    /\ ~encoder.fit_returned
    /\ ~encoder._ordinal_encoder.is_none
    /\ outcome = Raised(RuntimeError)

\* C15 as stated: fit raises ValueError for the column counts exactly when
\* input_cols does not have one name or output_cols has more than one.
C15_AsStated ==
    [][call'.op = "fit" =>
          (outcome' = Raised(ValueError)
               <=> (Len(encoder.input_cols) # 1 \/ Len(encoder.output_cols) > 1))]_vars

C16_Step ==
    call'.op = "transform" =>
        /\ FittedState(encoder') = FittedState(encoder)
        /\ (Fitted(encoder) /\ call'.dataset.type \notin {"snowpark", "pandas"})
               => outcome' = Raised(TypeError)

\* C16: on a fitted encoder, transform of a dataset that is neither a Snowpark
\* nor a pandas DataFrame raises TypeError; no call of transform, failing or
\* returning, changes _is_fitted, classes_ or the ordinal encoder.
C16_TransformKeepsState == [][C16_Step]_vars

C16_Witness ==
    /\ call.op = "transform"
    /\ call.dataset.type = "other"
    /\ Fitted(encoder)
    /\ outcome = Raised(TypeError)

(***************************************************************************)
(* Claims about the deployment.                                            *)
(***************************************************************************)
\* the number of calls of fn in a list of calls
CallCount(calls_made, fn) ==
    Cardinality({i \in 1..Len(calls_made) : calls_made[i].fn = fn})

\* C17: _deploy raises ValueError when model_id is empty and when stage or
\* image_repo is missing from the options, the message then naming the missing
\* options ("stage, image_repo" when both are); in these cases no
\* SnowServiceDeployment is constructed.
C17_DeployValidatesFirst ==
    call.op = "_deploy" =>
        /\ (call.model_id = "" \/ ~({"stage", "image_repo"} \subseteq call.options)) =>
               /\ outcome.status = ValueError
               /\ CallCount(trace, "SnowServiceDeployment") = 0
        /\ (call.model_id # "" /\ "stage" \notin call.options /\ "image_repo" \in call.options)
               => outcome.value = <<"stage">>
        /\ (call.model_id # "" /\ "stage" \in call.options /\ "image_repo" \notin call.options)
               => outcome.value = <<"image_repo">>
        /\ (call.model_id # "" /\ "stage" \notin call.options /\ "image_repo" \notin call.options)
               => outcome.value = <<"stage", ", ", "image_repo">>

C17_Witness ==
    /\ call.op = "_deploy"
    /\ call.model_id = "mock_model_id"
    /\ call.options = {"compute_pool"}
    /\ outcome = RaisedWith(ValueError, <<"stage", ", ", "image_repo">>)
    /\ trace = <<>>

\* C18: _deploy with a non-empty model_id and all required options constructs
\* SnowServiceDeployment exactly once, with the session, model_id,
\* service_func_name and model_dir of the call, and then calls deploy() on it
\* exactly once.
C18_DeployConstructsOnce ==
    (/\ call.op = "_deploy"
     /\ call.model_id # ""
     /\ {"stage", "image_repo"} \subseteq call.options) =>
        /\ outcome.status = "ok"
        /\ CallCount(trace, "SnowServiceDeployment") = 1
        /\ CallCount(trace, "deploy") = 1
        /\ \E i, j \in 1..Len(trace) :
               /\ i < j
               /\ trace[i] = [fn |-> "SnowServiceDeployment", session |-> call.session,
                              model_id |-> call.model_id,
                              service_func_name |-> call.service_func_name,
                              model_dir |-> call.model_dir]
               /\ trace[j].fn = "deploy"

C18_Witness ==
    /\ call.op = "_deploy"
    /\ call.model_id = "provided_model_id"
    /\ call.service_func_name = "mock_service_func"
    /\ call.model_dir = "mock_model_dir"
    /\ call.options = {"stage", "compute_pool", "image_repo"}
    /\ Len(trace) = 2
    /\ trace[1].model_id = "provided_model_id"

\* C19: one call of SnowServiceDeployment.deploy() calls _build_and_upload_image
\* once and _deploy_workflow once; one call of _build_and_upload_image calls
\* the image builder's build_and_upload_image once.
C19_DeployRunsEachStepOnce ==
    /\ call.op = "SnowServiceDeployment.deploy" =>
           /\ CallCount(trace, "_build_and_upload_image") = 1
           /\ CallCount(trace, "_deploy_workflow") = 1
    /\ call.op = "SnowServiceDeployment._build_and_upload_image" =>
           CallCount(trace, "image_builder.build_and_upload_image") = 1

C19_Witness ==
    /\ call.op = "SnowServiceDeployment.deploy"
    /\ calls = 2
    /\ Len(trace) = 2

(***************************************************************************)
(* Claims about the validation of a list of conda dependency strings.      *)
(***************************************************************************)
\* dep_str is a dependency string the validation of one string accepts
ValidCondaString(dep_str) ==
    LET p == ParseRequirement(RequirementTextOf(dep_str))
    IN  /\ p.valid
        /\ p.req.marker = ""
        /\ ChannelOf(dep_str) # Pip => (p.req.extras = {} /\ p.req.url = "")

\* the requirement of a valid dependency string
CondaRequirementOf(dep_str) ==
    [ParseRequirement(RequirementTextOf(dep_str)).req EXCEPT
         !.name = canonicalize_name(WrittenName(RequirementTextOf(dep_str)))]

\* the positions of list whose string has channel c, in increasing order
PositionsOfChannel(list, c) ==
    Ascending({i \in 1..Len(list) : ChannelOf(list[i]) = c})

RECURSIVE TotalLength(_)
TotalLength(d) == IF d = <<>> THEN 0 ELSE Len(Head(d).reqs) + TotalLength(Tail(d))

\* C20: validate_conda_dependency_string_list raises ValueError if any string
\* of the list is invalid, also when two strings before it name the same
\* package; a duplicate error is raised only when every string is valid; a
\* returned dict has a non-empty list under every channel, and its lists hold
\* one requirement per input string, in input order within each channel.
C20_ValidateBeforeDeduplicate ==
    call.op = "validate_conda_dependency_string_list" =>
        /\ (\E i \in 1..Len(arg) : ~ValidCondaString(arg[i])) => outcome = Raised(ValueError)
        /\ IsDuplicateError(outcome) => \A i \in 1..Len(arg) : ValidCondaString(arg[i])
        /\ outcome.status = "ok" =>
               /\ TotalLength(outcome.value) = Len(arg)
               /\ \A k \in 1..Len(outcome.value) :
                      LET entry == outcome.value[k]
                          positions == PositionsOfChannel(arg, entry.channel)
                      IN  /\ entry.reqs # <<>>
                          /\ Len(entry.reqs) = Len(positions)
                          /\ \A j \in 1..Len(positions) :
                                 entry.reqs[j] = CondaRequirementOf(arg[positions[j]])

C20_Witness ==
    /\ call.op = "validate_conda_dependency_string_list"
    /\ Len(arg) = 3
    /\ ValidCondaString(arg[1])
    /\ ValidCondaString(arg[2])
    /\ CondaRequirementOf(arg[1]).name = CondaRequirementOf(arg[2]).name
    /\ ~ValidCondaString(arg[3])
    /\ outcome = Raised(ValueError)

(***************************************************************************)
(* Claims about the entries of the cache.                                  *)
(***************************************************************************)
CachedNames(c) == {n \in LookupNames : InCache(c, n)}

C21_Step ==
    LookupStep =>
        /\ \A n \in CachedNames(cache) : cache'[n] = cache[n]
        /\ \A n \in CachedNames(cache') \ CachedNames(cache) :
               /\ CatalogVersions(catalog, n) # {}
               /\ cache'[n].versions = Ascending(CatalogVersions(catalog, n))
        /\ \A i \in 1..Len(call'.reqs) :
               LET req == call'.reqs[i]
                   cached == Elements(cache[req.name].versions)
               IN  (InCache(cache, req.name) /\ ~call'.data_error) =>
                       IF Satisfying(req, cached) = {}
                       THEN outcome' = ReturnNone
                       ELSE outcome'.value.is_none
                            \/ Count(outcome'.value.list, PinStr(req.name, Max(Satisfying(req, cached))))
                                   >= 1

\* C21: a lookup leaves every entry the cache already holds as it is (not
\* removed, replaced or extended); an entry is made from the versions the
\* catalog lists when the package is first loaded, and a requirement for a
\* cached package is answered from that entry, whatever the catalog lists now.
C21_CacheEntriesAreFinal == [][C21_Step]_vars

C21_Witness ==
    /\ call.op = "validate_requirements_in_snowflake_conda_channel"
    /\ call.reqs = <<PlainRequirement(<<"a">>, EmptySpecifier)>>
    /\ ~query.sent
    /\ cache[<<"a">>] = [cached |-> TRUE, versions |-> <<1>>]
    /\ CatalogVersions(catalog, <<"a">>) = {1, 2}
    /\ outcome = ReturnList(<<PinStr(<<"a">>, 1)>>)

====
